---- MODULE Spec2Model ----
(***************************************************************************)
(* Patient-level stratified splitting of a chest X-ray image inventory     *)
(* (src/src/data_splitting_algorithm.py) together with the master-index    *)
(* generator that produces its input (src/generate_master_index.py).       *)
(*                                                                         *)
(* Strings that the code parses (filenames, patient identifiers, caption   *)
(* text) are sequences of tokens; ratios are exact multiples of 1/RatioDen. *)
(***************************************************************************)
EXTENDS Integers, Sequences, FiniteSets, TLC

\* ------------------------------------------------------------------------
\* Bounds of the model
\* ------------------------------------------------------------------------
MaxBulk == 10       \* size of a bulk stratum (patients sharing one caption)
MaxSalt == 2        \* number of per-process string-hash salts explored
MaxNum  == 30       \* largest number written as a run of digits
MaxSmall == 2       \* small rows an inventory takes besides the scenario's
MaxExtra == 2       \* patients a synthetic population has beyond one thousand
MaxWords == 3       \* words of a caption text given to the label extractor alone
MaxBelow == 2       \* whole units below zero that a ratio of a lone stratum goes
MaxBytes == 3       \* length of the remote object a download fetches
MaxRetries == 10    \* largest max_retries a download is called with
MaxBreaks == 2      \* response streams of one download that break before their end
MaxBatches == 3     \* batches of BATCH_URLS the parallel downloader is given
MaxUpdates == 1     \* periodic progress updates one batch download makes

\* ------------------------------------------------------------------------
\* Numbers
\* ------------------------------------------------------------------------
\* ratios are carried as integer multiples of 1/RatioDen (0.8 is 8000)
RatioDen == 100 * 100

Abs(x) == IF x < 0 THEN -x ELSE x

Min(a, b) == IF a < b THEN a ELSE b

Max(a, b) == IF a > b THEN a ELSE b

\* rounding away from zero where the code truncates
PyIntCeil(n, num) ==
  IF n * num >= 0 THEN (n * num + RatioDen - 1) \div RatioDen
                  ELSE -((-(n * num) + RatioDen - 1) \div RatioDen)

\* Python int(n * r) for r = num/RatioDen: truncation toward zero
PyInt(n, num) ==
  IF n * num >= 0 THEN (n * num) \div RatioDen
                  ELSE -((-(n * num)) \div RatioDen)

\* Python index normalisation inside a slice of a list of length n
SliceIndex(i, n) == IF i < 0 THEN Max(i + n, 0) ELSE Min(i, n)

\* Python s[a:b]
PySlice(s, a, b) ==
  LET lo == SliceIndex(a, Len(s))
      hi == SliceIndex(b, Len(s))
  IN IF lo >= hi THEN << >> ELSE SubSeq(s, lo + 1, hi)

\* s[:b + 1] where the code has s[:b]
PySliceToMore(s, b) == PySlice(s, 0, b + 1)

\* Python s[:b]
PySliceTo(s, b) == PySlice(s, 0, b)

\* s[a + 1:] where the code has s[a:]
PySliceFromSkip(s, a) == PySlice(s, a + 1, Len(s))

\* Python s[a:]
PySliceFrom(s, a) == PySlice(s, a, Len(s))

Range(s) == { s[i] : i \in 1..Len(s) }

\* ------------------------------------------------------------------------
\* Filenames and the master index (generate_master_index.py)
\* ------------------------------------------------------------------------
DigitRuns == { ToString(i) : i \in 0..MaxNum }

IsDigits(tok) == tok \in DigitRuns

\* chexpert_patient<p>_study<s>.jpg, as process_chexpert_local.py names files
FnChexpert(p, s) == << "chexpert_", "patient", ToString(p), "_study", ToString(s), ".jpg" >>

FnChexpertBad == << "chexpert_", "scan", ".jpg" >>

FnNih == << "nih_", "7", ".jpg" >>

FnRadiopaedia(n) == << "radiopaedia_", ToString(n), ".jpg" >>

FnRadiopaediaBad == << "radiopaedia_", "case", ".jpg" >>

FnOther == << "scan_", "3", ".jpg" >>

\* source tag the generator derives from the filename prefix
SourceOf(filename) ==
  IF filename[1] = "radiopaedia_" THEN "Radiopaedia"
  ELSE IF filename[1] = "chexpert_" THEN "CheXpert"
  ELSE IF filename[1] = "nih_" THEN "NIH"
  ELSE IF filename[1] = "mimic_" THEN "MIMIC-CXR"
  ELSE "Unknown"

\* what can keep open(caption_path).read() from returning the text
CaptionFaults == {"missing", "empty_path", "null_path", "undecodable"}

\* a caption file that can be read, and its words
Caption(words) == [fault |-> "none", text |-> words]

\* a caption that cannot be read: the file is gone, the path is the empty
\* string, the path is the NaN read from an empty cell, or the bytes are no
\* UTF-8
Unreadable(fault) == [fault |-> fault, text |-> << >>]

\* the image had no caption file when the index was made: the generator
\* writes an empty caption_path, which read_csv loads as NaN
NoCaption == Unreadable("null_path")

\* the caption file of an image has been removed since the index was made
GoneCaption == Unreadable("missing")

\* one record of the master index; caption stands for the file caption_path names
MasterIndexRow(filename, caption) ==
  [filename |-> filename, source |-> SourceOf(filename),
   caption |-> caption, has_caption |-> caption.fault # "null_path"]

CapPneumonia == Caption(<< "Findings", "Pneumonia", "left" >>)

CapNormal == Caption(<< "no", "acute", "disease" >>)

CapCardiomegaly == Caption(<< "cardiomegaly", "noted" >>)

\* the small rows an inventory is made of, in file order
SmallRows ==
  << MasterIndexRow(FnChexpert(1, 1), CapPneumonia),
     MasterIndexRow(FnChexpert(1, 2), CapNormal),
     MasterIndexRow(FnChexpert(2, 1), CapNormal),
     MasterIndexRow(FnChexpertBad, GoneCaption),
     MasterIndexRow(FnNih, CapNormal),
     MasterIndexRow(FnRadiopaedia(5), NoCaption),
     MasterIndexRow(FnRadiopaedia(9), CapCardiomegaly),
     MasterIndexRow(FnOther, CapNormal) >>

\* k CheXpert patients, one image each, all with the same caption
RECURSIVE BulkChexpert(_)
BulkChexpert(k) ==
  IF k = 0 THEN << >>
  ELSE Append(BulkChexpert(k - 1), MasterIndexRow(FnChexpert(10 + k, 1), CapNormal))

\* k Radiopaedia cases, one image each, all with the same caption
RECURSIVE BulkRadiopaedia(_)
BulkRadiopaedia(k) ==
  IF k = 0 THEN << >>
  ELSE Append(BulkRadiopaedia(k - 1), MasterIndexRow(FnRadiopaedia(10 + k), CapCardiomegaly))

\* the rows of SmallRows whose index is in keep, in order
RECURSIVE SelectRows(_, _)
SelectRows(keep, n) ==
  IF n = 0 THEN << >>
  ELSE IF n \in keep THEN Append(SelectRows(keep, n - 1), SmallRows[n])
  ELSE SelectRows(keep, n - 1)

\* sizes of the CheXpert and of the Radiopaedia bulk stratum
BulkShapes == { << 0, 0 >>, << MaxBulk, 0 >>, << MaxBulk, MaxBulk >> }

\* the four-patient scenario: patient1 (2 images), patient2, radiopaedia_5
\* (no caption file), radiopaedia_9
ScenarioRows == {1, 2, 3, 6, 7}

SmallChoices ==
  { keep \in SUBSET (1..Len(SmallRows)) : Cardinality(keep) <= MaxSmall } \cup {ScenarioRows}

\* the inventories explored: a choice of small rows, then the bulk strata
Inventories ==
  { SelectRows(keep, Len(SmallRows)) \o BulkChexpert(shape[1]) \o BulkRadiopaedia(shape[2]) :
      keep \in SmallChoices, shape \in BulkShapes }

\* state of the master index file on disk
IndexStates == {"ok", "unreadable", "missing_columns"}

\* ------------------------------------------------------------------------
\* Program inputs
\* ------------------------------------------------------------------------
Ratios(t, v, s) == [train |-> t, val |-> v, test |-> s]

DefaultRatios == Ratios(8000, 1000, 1000)

RatioChoices ==
  { DefaultRatios, Ratios(5000, 2500, 2500), Ratios(7000, 2000, 2000),
    Ratios(-5000, 5000, 10000), Ratios(5000, -2500, 7500), Ratios(15000, -5000, 0),
    Ratios(8000, 1000, 1005), Ratios(8000, 1000, 1010), Ratios(-900, 5000, 5900) }

\* ratios tried on the command line
CliRatioChoices == { DefaultRatios, Ratios(5000, 2500, 2500), Ratios(7000, 2000, 2000) }

Seeds == {42, 7}

\* ------------------------------------------------------------------------
\* Patient Grouper
\* ------------------------------------------------------------------------
\* index of the first token equal to word that is followed by a run of
\* digits (re.search(word + r'(\d+)', filename)); 0 when there is no match
SearchDigitsAfter(word, filename) ==
  LET hits == { i \in 1..(Len(filename) - 1) :
                  filename[i] = word /\ IsDigits(filename[i + 1]) }
  IN IF hits = {} THEN 0 ELSE CHOOSE i \in hits : \A j \in hits : i <= j

\* number a token of the model's alphabet stands for inside the string hash
TokenCode(tok) ==
  IF IsDigits(tok) THEN CHOOSE i \in 0..MaxNum : ToString(i) = tok
  ELSE IF tok = "chexpert_" THEN 41
  ELSE IF tok = "radiopaedia_" THEN 43
  ELSE IF tok = "scan" THEN 47
  ELSE IF tok = "case" THEN 53
  ELSE IF tok = "patient" THEN 59
  ELSE 61

RECURSIVE FilenameCode(_)
FilenameCode(filename) ==
  IF filename = << >> THEN 0
  ELSE (FilenameCode(Tail(filename)) * 3 + TokenCode(Head(filename))) % 101

\* Python's hash() of a str: a signed integer that depends on the salt the
\* interpreter draws when the process starts
PyHash(filename, salt) == ((FilenameCode(filename) + 37 * salt) % 101) - 50

\* an extraction that gives a fallback identifier to a source without rule
\* where the code raises
extract_patient_id_lenient(filename, source, salt) ==
  IF source = "CheXpert" THEN
    LET m == SearchDigitsAfter("patient", filename)
    IN IF m # 0
       THEN [raised |-> "none", id |-> << "chexpert_", "patient", filename[m + 1] >>]
       ELSE [raised |-> "none",
             id |-> << "chexpert_", "unknown_", ToString(PyHash(filename, salt)) >>]
  ELSE IF source = "Radiopaedia" THEN
    LET m == SearchDigitsAfter("radiopaedia_", filename)
    IN IF m # 0
       THEN [raised |-> "none", id |-> << "radiopaedia_", filename[m + 1] >>]
       ELSE [raised |-> "none",
             id |-> << "radiopaedia_", "unknown_", ToString(PyHash(filename, salt)) >>]
  ELSE [raised |-> "none", id |-> << "other_", "unknown_", ToString(PyHash(filename, salt)) >>]

\* extract_patient_id: the identifier, or the exception raised
extract_patient_id(filename, source, salt) ==
  IF source = "CheXpert" THEN
    LET m == SearchDigitsAfter("patient", filename)
    IN IF m # 0
       THEN [raised |-> "none", id |-> << "chexpert_", "patient", filename[m + 1] >>]
       ELSE [raised |-> "none",
             id |-> << "chexpert_", "unknown_", ToString(PyHash(filename, salt)) >>]
  ELSE IF source = "Radiopaedia" THEN
    LET m == SearchDigitsAfter("radiopaedia_", filename)
    IN IF m # 0
       THEN [raised |-> "none", id |-> << "radiopaedia_", filename[m + 1] >>]
       ELSE [raised |-> "none",
             id |-> << "radiopaedia_", "unknown_", ToString(PyHash(filename, salt)) >>]
  ELSE [raised |-> "ValueError", id |-> << >>]

\* a record whose has_caption is worked out again from the caption file
ImageRecordRechecked(row, pid) ==
  [filename |-> row.filename, source |-> row.source, caption |-> row.caption,
   has_caption |-> row.caption.fault = "none", patient_id |-> pid, split |-> "none"]

\* an image record of patient_data: the row plus patient_id; split is "none"
\* until create_splits stamps it
ImageRecord(row, pid) ==
  [filename |-> row.filename, source |-> row.source, caption |-> row.caption,
   has_caption |-> row.has_caption, patient_id |-> pid, split |-> "none"]

\* keys of the patient_data dict (kept in insertion order)
Keys(pd) == { pd[i].patient_id : i \in 1..Len(pd) }

KeyList(pd) == [ i \in 1..Len(pd) |-> pd[i].patient_id ]

KeyIndex(pd, pid) == CHOOSE i \in 1..Len(pd) : pd[i].patient_id = pid

\* self.patient_data[pid] = [rec]: the record replaces the patient's list
AppendImageReplace(pd, pid, rec) ==
  IF pid \in Keys(pd)
  THEN [pd EXCEPT ![KeyIndex(pd, pid)].images = << rec >>]
  ELSE Append(pd, [patient_id |-> pid, images |-> << rec >>])

\* self.patient_data[pid].append(rec) on the defaultdict
AppendImage(pd, pid, rec) ==
  IF pid \in Keys(pd)
  THEN [pd EXCEPT ![KeyIndex(pd, pid)].images = Append(@, rec)]
  ELSE Append(pd, [patient_id |-> pid, images |-> << rec >>])

\* the loop of group_by_patient over rows i..Len(df); stops at the first raise
RECURSIVE GroupRows(_, _, _, _)
GroupRows(df, i, pd, salt) ==
  IF i > Len(df) THEN [raised |-> "none", patient_data |-> pd]
  ELSE LET r == extract_patient_id(df[i].filename, df[i].source, salt)
       IN IF r.raised # "none"
          THEN [raised |-> r.raised, patient_data |-> pd]
          ELSE GroupRows(df, i + 1, AppendImage(pd, r.id, ImageRecord(df[i], r.id)), salt)

\* ------------------------------------------------------------------------
\* Disease Label Extractor
\* ------------------------------------------------------------------------
\* str.lower() on the words of the model's alphabet
Lower(w) ==
  IF w = "Pneumonia" THEN "pneumonia"
  ELSE IF w = "Findings" THEN "findings"
  ELSE IF w = "Normal" THEN "normal"
  ELSE w

\* words that begin with another word, and words that end with one
WordPrefixes == { << "masses", "mass" >>, << "effusions", "effusion" >> }

WordSuffixes == { << "abnormal", "normal" >>, << "non-enlarged", "enlarged" >> }

WordStartsWith(w, k) == w = k \/ << w, k >> \in WordPrefixes

WordEndsWith(w, k) == w = k \/ << w, k >> \in WordSuffixes

\* k occurs somewhere inside the word w
WordHas(w, k) == WordStartsWith(w, k) \/ WordEndsWith(w, k)

\* keyword in caption_text: the phrase occurs at some position of the text.
\* A one-word keyword may lie inside a word; a phrase ends the word it starts
\* in, fills its middle words and begins its last word.  The words of the
\* text are separated by single blanks, line breaks are words of their own.
KeywordIn(keyword, text) ==
  \E i \in 1..(Len(text) - Len(keyword) + 1) :
     \A j \in 1..Len(keyword) :
        IF Len(keyword) = 1 THEN WordHas(text[i + j - 1], keyword[j])
        ELSE IF j = 1 THEN WordEndsWith(text[i + j - 1], keyword[j])
        ELSE IF j = Len(keyword) THEN WordStartsWith(text[i + j - 1], keyword[j])
        ELSE text[i + j - 1] = keyword[j]

\* the taxonomy, in the order the dict literal lists it
disease_keywords ==
  << [disease |-> "pneumonia",
      keywords |-> << << "pneumonia" >>, << "consolidation" >>, << "infiltrate" >> >>],
     [disease |-> "pleural_effusion",
      keywords |-> << << "pleural", "effusion" >>, << "effusion" >> >>],
     [disease |-> "cardiomegaly",
      keywords |-> << << "cardiomegaly" >>, << "enlarged", "heart" >>,
                      << "cardiac", "enlargement" >> >>],
     [disease |-> "edema", keywords |-> << << "edema" >>, << "pulmonary", "edema" >> >>],
     [disease |-> "atelectasis", keywords |-> << << "atelectasis" >>, << "collapse" >> >>],
     [disease |-> "pneumothorax", keywords |-> << << "pneumothorax" >> >>],
     [disease |-> "nodule", keywords |-> << << "nodule" >>, << "mass" >>, << "lesion" >> >>],
     [disease |-> "fracture", keywords |-> << << "fracture" >>, << "rib", "fracture" >> >>],
     [disease |-> "normal",
      keywords |-> << << "no", "acute" >>, << "normal" >>, << "clear", "lungs" >>,
                      << "unremarkable" >> >>] >>

\* the exception open() or read() raises on the caption, "none" when the
\* text is read; each of them is caught by "except Exception"
OpenRead(caption) ==
  IF caption.fault \in {"missing", "empty_path"} THEN "FileNotFoundError"
  ELSE IF caption.fault = "null_path" THEN "TypeError"
  ELSE IF caption.fault = "undecodable" THEN "UnicodeDecodeError"
  ELSE "none"

\* an extractor that reads the text as written, without lower()
extract_diseases_as_written(caption) ==
  IF OpenRead(caption) # "none" THEN << "unspecified" >>
  ELSE LET Matches(entry) ==
             \E k \in 1..Len(entry.keywords) : KeywordIn(entry.keywords[k], caption.text)
           hit == SelectSeq(disease_keywords, Matches)
           diseases_found == [ i \in 1..Len(hit) |-> hit[i].disease ]
       IN IF diseases_found = << >> THEN << "unspecified" >> ELSE diseases_found

\* extract_diseases_from_caption: the list of tags of one caption file
extract_diseases_from_caption(caption) ==
  IF OpenRead(caption) # "none" THEN << "unspecified" >>
  ELSE LET caption_text == [ i \in 1..Len(caption.text) |-> Lower(caption.text[i]) ]
           Matches(entry) ==
             \E k \in 1..Len(entry.keywords) : KeywordIn(entry.keywords[k], caption_text)
           hit == SelectSeq(disease_keywords, Matches)
           diseases == [ i \in 1..Len(hit) |-> hit[i].disease ]
       IN IF diseases = << >> THEN << "unspecified" >> ELSE diseases

\* a label pass that skips the images whose caption cannot be read
extract_labels_of_readable(pd) ==
  [ pid \in Keys(pd) |->
      UNION { Range(extract_diseases_from_caption(pd[KeyIndex(pd, pid)].images[k].caption)) :
                k \in { j \in 1..Len(pd[KeyIndex(pd, pid)].images) :
                          pd[KeyIndex(pd, pid)].images[j].caption.fault = "none" } } ]

\* extract_patient_disease_labels: patient_id -> the tags of all its captions
\* (list(set(...)) is carried as the set)
extract_patient_disease_labels(pd) ==
  [ pid \in Keys(pd) |->
      UNION { Range(extract_diseases_from_caption(pd[KeyIndex(pd, pid)].images[k].caption)) :
                k \in 1..Len(pd[KeyIndex(pd, pid)].images) } ]

\* ------------------------------------------------------------------------
\* Stratification Key Resolver
\* ------------------------------------------------------------------------
\* the tags in the order the taxonomy lists them
priority_as_taxonomy ==
  << "pneumonia", "pleural_effusion", "cardiomegaly", "edema", "atelectasis",
     "pneumothorax", "nodule", "fracture", "normal", "unspecified" >>

\* the priority order, most significant first
priority_diseases ==
  << "pneumonia", "pneumothorax", "pleural_effusion", "cardiomegaly", "edema",
     "atelectasis", "nodule", "fracture", "normal", "unspecified" >>

get_stratification_key(labels, pid) ==
  LET diseases == IF pid \in DOMAIN labels THEN labels[pid] ELSE {"unspecified"}
      ranked == { i \in 1..Len(priority_diseases) : priority_diseases[i] \in diseases }
  IN IF ranked # {}
     THEN priority_diseases[CHOOSE i \in ranked : \A j \in ranked : i <= j]
     ELSE IF diseases # {} THEN CHOOSE d \in diseases : TRUE ELSE "unspecified"

\* ------------------------------------------------------------------------
\* The process-wide pseudo-random generator (np.random)
\* ------------------------------------------------------------------------
\* np.random.seed(seed): the generator state a seed determines
SeedRng(seed) == (seed * 31 + 11) % 65537

\* the generator state after one draw
NextRng(r) == (r * 75 + 74) % 65537

\* one step of np.random.shuffle: swap x[i] with x[j], j drawn from 0..i
\* with the draw r2; positions here are 1-based
SwapAt(s, i, r2) ==
  [list |-> [s.list EXCEPT ![i + 1] = s.list[(r2 % (i + 1)) + 1],
                           ![(r2 % (i + 1)) + 1] = s.list[i + 1]],
   rng |-> r2]

ShuffleStep(s, i) == SwapAt(s, i, NextRng(s.rng))

\* the steps i = hi, hi-1, ..., lo of the shuffle, in that order
RECURSIVE ShuffleSteps(_, _, _)
ShuffleSteps(s, hi, lo) ==
  IF s.list = << >> \/ hi < lo THEN s
  ELSE IF hi = lo THEN ShuffleStep(s, hi)
  ELSE ShuffleSteps(ShuffleSteps(s, hi, ((hi + lo) \div 2) + 1), (hi + lo) \div 2, lo)

\* np.random.shuffle: for i = n-1 down to 1
Shuffle(x, r) == ShuffleSteps([list |-> x, rng |-> r], Len(x) - 1, 1)

\* ------------------------------------------------------------------------
\* Stratified Allocator
\* ------------------------------------------------------------------------
\* an entry check with tolerance 0.2 where the code has 0.001
RatiosAcceptedLoose(ratios) ==
  Abs(ratios.train + ratios.val + ratios.test - RatioDen) * 5 < RatioDen

\* the assert on entry: abs(train + val + test - 1.0) < 0.001
RatiosAccepted(ratios) ==
  Abs(ratios.train + ratios.val + ratios.test - RatioDen) * 1000 < RatioDen

\* the labels of a list, each once, in order of first appearance
AppendNew(seen, x) == IF x \in Range(seen) THEN seen ELSE Append(seen, x)

RECURSIVE FirstAppearance(_)
FirstAppearance(s) ==
  IF s = << >> THEN << >>
  ELSE AppendNew(FirstAppearance(SubSeq(s, 1, Len(s) - 1)), s[Len(s)])

\* stratification_labels: the key of each listed patient
StratificationLabels(patient_ids, labels) ==
  [ i \in 1..Len(patient_ids) |-> get_stratification_key(labels, patient_ids[i]) ]

\* the patients whose label is the given one, in list order
PatientsLabelled(patient_ids, stratification_labels, label) ==
  LET InGroup(p) ==
        \E i \in 1..Len(patient_ids) :
           patient_ids[i] = p /\ stratification_labels[i] = label
  IN SelectSeq(patient_ids, InGroup)

GroupsInOrder(patient_ids, stratification_labels, order) ==
  [ g \in 1..Len(order) |->
      [disease |-> order[g],
       patients |-> PatientsLabelled(patient_ids, stratification_labels, order[g])] ]

GroupsByLabel(patient_ids, stratification_labels) ==
  GroupsInOrder(patient_ids, stratification_labels, FirstAppearance(stratification_labels))

\* disease_groups: label -> patients, labels in order of first appearance
DiseaseGroups(patient_ids, labels) ==
  GroupsByLabel(patient_ids, StratificationLabels(patient_ids, labels))

\* a cut that gives the head of the group to test and the tail to train
CutShuffledBackwards(sh, n_train, n_val, acc) ==
  [train |-> acc.train \o PySliceFrom(sh.list, n_train + n_val),
   val |-> acc.val \o PySlice(sh.list, n_train, n_train + n_val),
   test |-> acc.test \o PySliceTo(sh.list, n_train),
   rng |-> sh.rng]

\* the three slices of a shuffled group, appended to the lists so far
CutShuffled(sh, n_train, n_val, acc) ==
  [train |-> acc.train \o PySliceTo(sh.list, n_train),
   val |-> acc.val \o PySlice(sh.list, n_train, n_train + n_val),
   test |-> acc.test \o PySliceFrom(sh.list, n_train + n_val),
   rng |-> sh.rng]

\* a pass that cuts train with the val ratio and val with the train ratio
CutGroupSwapped(patients, ratios, acc) ==
  CutShuffled(Shuffle(patients, acc.rng),
              PyInt(Len(patients), ratios.val),
              PyInt(Len(patients), ratios.train), acc)

\* one pass of the loop over disease_groups: shuffle, then cut
CutGroup(patients, ratios, acc) ==
  CutShuffled(Shuffle(patients, acc.rng),
              PyInt(Len(patients), ratios.train),
              PyInt(Len(patients), ratios.val), acc)

RECURSIVE SplitGroups(_, _, _, _)
SplitGroups(groups, g, ratios, acc) ==
  IF g > Len(groups) THEN acc
  ELSE SplitGroups(groups, g + 1, ratios, CutGroup(groups[g].patients, ratios, acc))

Returned(res) ==
  [raised |-> "none", train |-> res.train, val |-> res.val, test |-> res.test,
   rng |-> res.rng]

\* stratified_split_patients: the three lists and the generator state left
\* behind, or the AssertionError of the entry check
stratified_split_patients(patient_ids, ratios, labels, r) ==
  IF ~RatiosAccepted(ratios)
  THEN [raised |-> "AssertionError", train |-> << >>, val |-> << >>, test |-> << >>,
        rng |-> r]
  ELSE Returned(SplitGroups(DiseaseGroups(patient_ids, labels), 1, ratios,
                            [train |-> << >>, val |-> << >>, test |-> << >>, rng |-> r]))

\* ------------------------------------------------------------------------
\* Split Orchestrator: create_splits
\* ------------------------------------------------------------------------
\* self.splits = {} after construction
NoSplits ==
  [set |-> FALSE, train |-> << >>, val |-> << >>, test |-> << >>,
   train_patients |-> << >>, val_patients |-> << >>, test_patients |-> << >>]

\* no allocator call has returned yet
NoAlloc == [train |-> << >>, val |-> << >>, test |-> << >>]

StartsWith(pid, prefix) == Len(pid) >= 1 /\ pid[1] = prefix

\* patients_to_dataframe: the images of the listed patients, split stamped
RECURSIVE patients_to_dataframe(_, _, _)
patients_to_dataframe(pd, patient_list, split_name) ==
  IF patient_list = << >> THEN << >>
  ELSE LET images == pd[KeyIndex(pd, Head(patient_list))].images
       IN [ k \in 1..Len(images) |-> [images[k] EXCEPT !.split = split_name] ]
          \o patients_to_dataframe(pd, Tail(patient_list), split_name)

\* image['split'] = split_name writes into the dicts patient_data holds: each
\* image keeps the name of the last table it was put in
StampPatientData(pd, train_patients, val_patients, test_patients) ==
  [ i \in 1..Len(pd) |->
      LET pid == pd[i].patient_id
          last == IF pid \in Range(test_patients) THEN "test"
                  ELSE IF pid \in Range(val_patients) THEN "val"
                  ELSE IF pid \in Range(train_patients) THEN "train"
                  ELSE "keep"
      IN [pd[i] EXCEPT !.images =
            [ k \in 1..Len(@) |->
                IF last = "keep" THEN @[k] ELSE [@[k] EXCEPT !.split = last] ]] ]

\* the patient lists and tables create_splits stores in self.splits
SplitTables(pd, train_patients, val_patients, test_patients) ==
  [set |-> TRUE,
   train |-> patients_to_dataframe(pd, train_patients, "train"),
   val |-> patients_to_dataframe(pd, val_patients, "val"),
   test |-> patients_to_dataframe(pd, test_patients, "test"),
   train_patients |-> train_patients,
   val_patients |-> val_patients,
   test_patients |-> test_patients]

Lists(res) == [train |-> res.train, val |-> res.val, test |-> res.test]

\* the rest of create_splits once both allocator calls have ended
CombineSplits(pd, chexpert_splits, radiopaedia_splits) ==
  IF chexpert_splits.raised # "none" \/ radiopaedia_splits.raised # "none"
  THEN [raised |-> "AssertionError", splits |-> NoSplits, patient_data |-> pd,
        rng |-> chexpert_splits.rng, chexpert_splits |-> NoAlloc,
        radiopaedia_splits |-> NoAlloc]
  ELSE [raised |-> "none",
        splits |-> SplitTables(pd, chexpert_splits.train \o radiopaedia_splits.train,
                               chexpert_splits.val \o radiopaedia_splits.val,
                               chexpert_splits.test \o radiopaedia_splits.test),
        patient_data |->
          StampPatientData(pd, chexpert_splits.train \o radiopaedia_splits.train,
                           chexpert_splits.val \o radiopaedia_splits.val,
                           chexpert_splits.test \o radiopaedia_splits.test),
        rng |-> radiopaedia_splits.rng,
        chexpert_splits |-> Lists(chexpert_splits),
        radiopaedia_splits |-> Lists(radiopaedia_splits)]

\* the keys of patient_data with the given prefix, in dict order
PatientsWithPrefix(pd, prefix) ==
  LET HasPrefix(pid) == StartsWith(pid, prefix)
  IN SelectSeq(KeyList(pd), HasPrefix)

\* the second allocator call: it starts from the generator state the first left
SplitRadiopaedia(pd, labels, ratios, chexpert_splits) ==
  CombineSplits(pd, chexpert_splits,
                stratified_split_patients(PatientsWithPrefix(pd, "radiopaedia_"), ratios,
                                          labels, chexpert_splits.rng))

create_splits(pd, labels, ratios, r) ==
  SplitRadiopaedia(pd, labels, ratios,
                   stratified_split_patients(PatientsWithPrefix(pd, "chexpert_"), ratios,
                                             labels, r))

\* ------------------------------------------------------------------------
\* Split Validator
\* ------------------------------------------------------------------------
NoReport ==
  [raised |-> "none", returned |-> FALSE, no_patient_overlap |-> FALSE,
   ratio_validation |-> FALSE, train_has_both_sources |-> FALSE,
   val_has_both_sources |-> FALSE, test_has_both_sources |-> FALSE,
   all_patients_assigned |-> FALSE, overall_valid |-> FALSE]

\* split_df['source'].unique() has two entries
HasBothSources(table) == Cardinality({ table[i].source : i \in 1..Len(table) }) = 2

\* validate_splits: the report, or the exception that ends the call.  A table
\* built from no record has no 'source' column (KeyError); a split with no
\* patient at all divides by zero.
validate_splits(sp, pd) ==
  LET train_patients == Range(sp.train_patients)
      val_patients == Range(sp.val_patients)
      test_patients == Range(sp.test_patients)
      no_patient_overlap ==
        /\ train_patients \cap val_patients = {}
        /\ train_patients \cap test_patients = {}
        /\ val_patients \cap test_patients = {}
      total_patients ==
        Cardinality(train_patients) + Cardinality(val_patients) + Cardinality(test_patients)
      \* abs(n/total - target) < 0.05, all multiplied by 20 * total
      ratio_validation ==
        /\ Abs(20 * Cardinality(train_patients) - 16 * total_patients) < total_patients
        /\ Abs(20 * Cardinality(val_patients) - 2 * total_patients) < total_patients
        /\ Abs(20 * Cardinality(test_patients) - 2 * total_patients) < total_patients
      all_patients_assigned ==
        Keys(pd) = train_patients \cup val_patients \cup test_patients
  IN IF ~sp.set THEN [NoReport EXCEPT !.raised = "KeyError"]
     ELSE IF total_patients = 0 THEN [NoReport EXCEPT !.raised = "ZeroDivisionError"]
     ELSE IF sp.train = << >> \/ sp.val = << >> \/ sp.test = << >>
          THEN [NoReport EXCEPT !.raised = "KeyError"]
     ELSE [raised |-> "none", returned |-> TRUE,
           no_patient_overlap |-> no_patient_overlap,
           ratio_validation |-> ratio_validation,
           train_has_both_sources |-> HasBothSources(sp.train),
           val_has_both_sources |-> HasBothSources(sp.val),
           test_has_both_sources |-> HasBothSources(sp.test),
           all_patients_assigned |-> all_patients_assigned,
           overall_valid |->
             /\ no_patient_overlap /\ ratio_validation
             /\ HasBothSources(sp.train) /\ HasBothSources(sp.val)
             /\ HasBothSources(sp.test) /\ all_patients_assigned]

\* ------------------------------------------------------------------------
\* Persistence: save_splits
\* ------------------------------------------------------------------------
\* the artifacts, in the order save_splits writes them
Artifacts ==
  << "train_index", "val_index", "test_index", "split_metadata", "patient_mapping" >>

FirstArtifacts(n) == { Artifacts[i] : i \in 1..n }

\* mapping[key] = value on a dict kept in insertion order
DictSet(m, key, value) ==
  IF \E i \in 1..Len(m) : m[i].patient_id = key
  THEN [ i \in 1..Len(m) |->
           IF m[i].patient_id = key THEN [m[i] EXCEPT !.split = value] ELSE m[i] ]
  ELSE Append(m, [patient_id |-> key, split |-> value])

RECURSIVE DictSetAll(_, _, _)
DictSetAll(m, keys, value) ==
  IF keys = << >> THEN m
  ELSE DictSetAll(DictSet(m, Head(keys), value), Tail(keys), value)

\* the patient_mapping dict save_splits builds
PatientMapping(sp) ==
  DictSetAll(DictSetAll(DictSetAll(<< >>, sp.train_patients, "train"),
                        sp.val_patients, "val"),
             sp.test_patients, "test")

NoMetadata == [random_seed |-> -1, validation_checks |-> NoReport]

\* save_splits.  fail_at = 0: every write succeeds; fail_at = k: the k-th
\* write of Artifacts raises OSError.  The result names the files that exist
\* when the call ends.
SaveWithReport(sp, seed, fail_at, report) ==
  LET Ended(exc, n, meta, mapping) ==
        [raised |-> exc, files |-> FirstArtifacts(n), metadata |-> meta,
         mapping |-> mapping]
      metadata == [random_seed |-> seed, validation_checks |-> report]
  IN IF ~sp.set THEN Ended("KeyError", 0, NoMetadata, << >>)
     ELSE IF fail_at \in 1..3 THEN Ended("OSError", fail_at - 1, NoMetadata, << >>)
     \* get_disease_distribution reads df['patient_id'] of each table
     ELSE IF sp.train = << >> \/ sp.val = << >> \/ sp.test = << >>
          THEN Ended("KeyError", 3, NoMetadata, << >>)
     ELSE IF report.raised # "none" THEN Ended(report.raised, 3, NoMetadata, << >>)
     ELSE IF fail_at = 4 THEN Ended("OSError", 3, NoMetadata, << >>)
     ELSE IF fail_at = 5 THEN Ended("OSError", 4, metadata, << >>)
     ELSE Ended("none", 5, metadata, PatientMapping(sp))

save_splits(sp, pd, seed, fail_at) ==
  SaveWithReport(sp, seed, fail_at, validate_splits(sp, pd))

\* ------------------------------------------------------------------------
\* State
\* ------------------------------------------------------------------------
VARIABLES
  inventory,          \* rows of the master index file
  index_state,        \* whether that file can be read and has its columns
  mode,               \* "cli": main(); "api": a caller passing its own ratios
  ratios,             \* --train-ratio/--val-ratio/--test-ratio, or the caller's
  random_seed,        \* --random-seed
  run,                \* 1 or 2: which process over the same inputs this is
  hash_salt,          \* string-hash salt of the running interpreter
  rng,                \* state of np.random
  master_df,          \* self.master_df
  patient_data,       \* self.patient_data
  disease_labels,     \* self.disease_labels
  splits,             \* self.splits
  used_ratios,        \* the ratios create_splits was called with
  alloc,              \* what the two stratified_split_patients calls returned
  validation_results, \* what the last validate_splits call returned
  files,              \* artifacts present in the output directory
  metadata_out,       \* content of split_metadata
  mapping_out,        \* content of patient_mapping
  pc,                 \* position in run_full_pipeline
  raised,             \* the exception that ended the run, or "none"
  exit_code,          \* exit status of the process, -1 while it runs
  first_run,          \* outputs of run 1, kept for comparison with run 2
  strata_sizes,       \* synthetic population: the size of each stratum
  cut_next,           \* index of the next synthetic stratum to shuffle and cut
  cut_lists,          \* lists and generator state after the strata cut so far
  caption_file,       \* the caption file one call of the label extractor reads
  diseases,           \* what that call returned; << >> before the call
  labels_given,       \* the disease_labels one call of the key resolver reads
  stratification_key, \* what that call returned; "" before the call
  splitters,          \* the splitter objects living in one process
  invocation,         \* which call of run_full_pipeline on the splitter this is
  first_groups,       \* the patient groups the first call ended with
  output_file,        \* the file a download writes: whether it exists, its bytes
  download,           \* locals of one download_with_retry call and what it slept
  progress_file,      \* download_progress.json: the status recorded for each batch
  parallel,           \* --parallel: how many download_batch calls run at once
  threads             \* each download_batch call: position, loaded progress, result

vars ==
  << inventory, index_state, mode, ratios, random_seed, run, hash_salt, rng, master_df,
     patient_data, disease_labels, splits, used_ratios, alloc, validation_results, files,
     metadata_out, mapping_out, pc, raised, exit_code, first_run,
     strata_sizes, cut_next, cut_lists, caption_file, diseases, labels_given,
     stratification_key, splitters, invocation, first_groups, output_file, download,
     progress_file, parallel, threads >>

\* the variables of the allocator loop, of the single extractor call and of
\* the single resolver call
convergence_vars == << strata_sizes, cut_next, cut_lists >>

extractor_vars == << caption_file, diseases >>

resolver_vars == << labels_given, stratification_key >>

again_vars == << invocation, first_groups >>

retry_vars == << output_file, download >>
batch_vars == << progress_file, parallel, threads >>

\* what the steps of the pipeline never touch
outside ==
  << convergence_vars, extractor_vars, resolver_vars, splitters, again_vars, retry_vars, batch_vars >>

inputs == << inventory, index_state, mode, ratios, random_seed >>

\* what the pipeline reads and writes
pipeline_vars ==
  << inputs, run, hash_salt, rng, master_df, patient_data, disease_labels, splits,
     used_ratios, alloc, validation_results, files, metadata_out, mapping_out, pc, raised,
     exit_code, first_run >>

NoRatios == Ratios(0, 0, 0)

NoAllocs == [chexpert |-> NoAlloc, radiopaedia |-> NoAlloc]

NoRun == [mapping |-> << >>, exit_code |-> -1, patient_ids |-> << >>]

EmptyLabels == [ pid \in {} |-> {} ]

\* no list cut yet
NoCuts == [train |-> << >>, val |-> << >>, test |-> << >>, rng |-> 0]

\* the splitter before its process has started
NotStarted ==
  /\ run = 1
  /\ hash_salt = 0
  /\ rng = 0
  /\ master_df = << >>
  /\ patient_data = << >>
  /\ disease_labels = EmptyLabels
  /\ splits = NoSplits
  /\ used_ratios = NoRatios
  /\ alloc = NoAllocs
  /\ validation_results = NoReport
  /\ files = {}
  /\ metadata_out = NoMetadata
  /\ mapping_out = << >>
  /\ pc = "start"
  /\ raised = "none"
  /\ exit_code = -1
  /\ first_run = NoRun

\* the pipeline with its default arguments, not started
PipelineIdle ==
  /\ inventory = << >>
  /\ index_state = "ok"
  /\ mode = "api"
  /\ ratios = DefaultRatios
  /\ random_seed = 42
  /\ NotStarted

\* no synthetic population, no caption under the extractor, no resolver call
ConvergenceIdle == strata_sizes = << >> /\ cut_next = 0 /\ cut_lists = NoCuts

ExtractorIdle == caption_file = NoCaption /\ diseases = << >>

ResolverIdle == labels_given = EmptyLabels /\ stratification_key = ""

\* a splitter object that has not been constructed
NoSplitter == [pc |-> "none", random_seed |-> 0, patients |-> 0, assigned |-> NoAlloc,
               metadata_seed |-> -1]

SplitterNames == {"a", "b"}

NoSplitters == [ i \in SplitterNames |-> NoSplitter ]

SplittersIdle == splitters = NoSplitters

\* run_full_pipeline is called once on a splitter
CalledOnce == invocation = 1 /\ first_groups = << >>

\* no file on disk
NoFile == [exists |-> FALSE, bytes |-> << >>]

\* download_with_retry has not been called
NoDownload ==
  [pc |-> "idle", max_retries |-> 0, downloaded |-> 0, retry_count |-> 0,
   backoff_delay |-> 0, status |-> 0, body |-> << >>, result |-> "none",
   sleeps |-> 0, last_sleep |-> 0, requests |-> 0, breaks |-> 0,
   resumed |-> FALSE]

RetryIdle == output_file = NoFile /\ download = NoDownload

\* BATCH_URLS: the batches the downloader is given
BatchNames == { "batch" \o ToString(i) : i \in 1..MaxBatches }

\* a download_batch call that has not been submitted
NoThread == [pc |-> "none", progress |-> << >>, updates |-> 0, result |-> "none"]

\* no progress file, and main() of the batch downloader not started
NoProgress == [b \in BatchNames |-> "absent"]
BatchesIdle ==
  /\ progress_file = NoProgress
  /\ parallel = 0
  /\ threads = [b \in BatchNames |-> NoThread]

Init ==
  /\ inventory \in Inventories
  /\ index_state \in IndexStates
  /\ index_state # "ok" => inventory = << >>
  /\ mode \in {"cli", "api"}
  /\ ratios \in RatioChoices
  /\ mode = "cli" => ratios \in CliRatioChoices
  /\ random_seed \in Seeds
  /\ NotStarted
  /\ ConvergenceIdle
  /\ ExtractorIdle
  /\ ResolverIdle
  /\ SplittersIdle
  /\ CalledOnce
  /\ RetryIdle
  /\ BatchesIdle

\* ------------------------------------------------------------------------
\* Steps of main() / run_full_pipeline()
\* ------------------------------------------------------------------------
\* the interpreter starts (drawing its hash salt) and __init__ seeds np.random
Construct ==
  /\ pc = "start"
  /\ \E salt \in 0..(MaxSalt - 1) : hash_salt' = salt
  /\ rng' = SeedRng(random_seed)
  /\ pc' = "constructed"
  /\ UNCHANGED << inputs, outside, run, master_df, patient_data, disease_labels, splits, used_ratios,
                  alloc, validation_results, files, metadata_out, mapping_out, raised,
                  exit_code, first_run >>

load_master_index ==
  /\ pc = "constructed"
  /\ IF index_state = "unreadable"
     THEN /\ raised' = "FileNotFoundError"
          /\ pc' = "raised"
          /\ UNCHANGED master_df
     ELSE IF index_state = "missing_columns"
     THEN /\ raised' = "ValueError"
          /\ pc' = "raised"
          /\ master_df' = inventory
     ELSE /\ master_df' = inventory
          /\ pc' = "loaded"
          /\ UNCHANGED raised
  /\ UNCHANGED << inputs, outside, run, hash_salt, rng, patient_data, disease_labels, splits,
                  used_ratios, alloc, validation_results, files, metadata_out, mapping_out,
                  exit_code, first_run >>

group_by_patient ==
  /\ pc = "loaded"
  /\ \E res \in { GroupRows(master_df, 1, patient_data, hash_salt) } :
        /\ patient_data' = res.patient_data
        /\ raised' = res.raised
        /\ pc' = IF res.raised = "none" THEN "grouped" ELSE "raised"
  /\ UNCHANGED << inputs, outside, run, hash_salt, rng, master_df, disease_labels, splits,
                  used_ratios, alloc, validation_results, files, metadata_out, mapping_out,
                  exit_code, first_run >>

ExtractLabels ==
  /\ pc = "grouped"
  /\ disease_labels' = extract_patient_disease_labels(patient_data)
  /\ pc' = "labelled"
  /\ UNCHANGED << inputs, outside, run, hash_salt, rng, master_df, patient_data, splits, used_ratios,
                  alloc, validation_results, files, metadata_out, mapping_out, raised,
                  exit_code, first_run >>

\* run_full_pipeline calls create_splits() with no argument; an API caller
\* passes its ratios
CreateSplits ==
  /\ pc = "labelled"
  /\ \E given \in { IF mode = "cli" THEN DefaultRatios ELSE ratios } :
     \E res \in { create_splits(patient_data, disease_labels, given, rng) } :
        /\ used_ratios' = given
        /\ raised' = res.raised
        /\ pc' = IF res.raised = "none" THEN "split" ELSE "raised"
        /\ IF res.raised = "none"
           THEN /\ splits' = res.splits
                /\ patient_data' = res.patient_data
                /\ rng' = res.rng
                /\ alloc' = [chexpert |-> res.chexpert_splits,
                             radiopaedia |-> res.radiopaedia_splits]
           ELSE UNCHANGED << splits, patient_data, rng, alloc >>
  /\ UNCHANGED << inputs, outside, run, hash_salt, master_df, disease_labels, validation_results,
                  files, metadata_out, mapping_out, exit_code, first_run >>

\* a validator that writes the split name "test" into every image record
ValidateSplitsStamping ==
  /\ pc = "split"
  /\ \E res \in { validate_splits(splits, patient_data) } :
        /\ validation_results' = res
        /\ raised' = res.raised
        /\ pc' = IF res.raised = "none" THEN "validated" ELSE "raised"
  /\ patient_data' = StampPatientData(patient_data, << >>, << >>, KeyList(patient_data))
  /\ UNCHANGED << inputs, outside, run, hash_salt, rng, master_df, disease_labels,
                  splits, used_ratios, alloc, files, metadata_out, mapping_out, exit_code,
                  first_run >>

ValidateSplits ==
  /\ pc = "split"
  /\ \E res \in { validate_splits(splits, patient_data) } :
        /\ validation_results' = res
        /\ raised' = res.raised
        /\ pc' = IF res.raised = "none" THEN "validated" ELSE "raised"
  /\ UNCHANGED << inputs, outside, run, hash_salt, rng, master_df, patient_data, disease_labels,
                  splits, used_ratios, alloc, files, metadata_out, mapping_out, exit_code,
                  first_run >>

SaveSplits ==
  /\ pc = "validated"
  /\ \E fail_at \in 0..Len(Artifacts) :
       \E res \in { save_splits(splits, patient_data, random_seed, fail_at) } :
          /\ files' = files \cup res.files
          /\ metadata_out' = res.metadata
          /\ mapping_out' = res.mapping
          /\ raised' = res.raised
          /\ pc' = IF res.raised = "none" THEN "saved" ELSE "raised"
  /\ UNCHANGED << inputs, outside, run, hash_salt, rng, master_df, patient_data, disease_labels,
                  splits, used_ratios, alloc, validation_results, exit_code, first_run >>

\* main() returns, or the exception reaches the top level
Exit ==
  /\ pc \in {"saved", "raised"}
  /\ exit_code' = IF pc = "saved" THEN 0 ELSE 1
  /\ pc' = "exited"
  /\ UNCHANGED << inputs, outside, run, hash_salt, rng, master_df, patient_data, disease_labels,
                  splits, used_ratios, alloc, validation_results, files, metadata_out,
                  mapping_out, raised, first_run >>

\* the same command is started again, on the same inventory with the same
\* arguments, in a new process writing to an empty output directory
Rerun ==
  /\ pc = "exited"
  /\ run = 1
  /\ mode = "cli"
  /\ run' = 2
  /\ first_run' = [mapping |-> mapping_out, exit_code |-> exit_code,
                   patient_ids |-> KeyList(patient_data)]
  /\ hash_salt' = 0
  /\ rng' = 0
  /\ master_df' = << >>
  /\ patient_data' = << >>
  /\ disease_labels' = EmptyLabels
  /\ splits' = NoSplits
  /\ used_ratios' = NoRatios
  /\ alloc' = NoAllocs
  /\ validation_results' = NoReport
  /\ files' = {}
  /\ metadata_out' = NoMetadata
  /\ mapping_out' = << >>
  /\ pc' = "start"
  /\ raised' = "none"
  /\ exit_code' = -1
  /\ UNCHANGED << inputs, outside >>

Next ==
  \/ Construct
  \/ load_master_index
  \/ group_by_patient
  \/ ExtractLabels
  \/ CreateSplits
  \/ ValidateSplits
  \/ SaveSplits
  \/ Exit
  \/ Rerun

Spec == Init /\ [][Next]_vars

\* ------------------------------------------------------------------------
\* The allocator's loop on a large synthetic population
\* ------------------------------------------------------------------------
\* Three stratification keys; each key has a CheXpert and a Radiopaedia
\* stratum, since create_splits calls the allocator once per source.

\* population sizes: one thousand patients and a few more
SyntheticTotals == { 1000 + k : k \in 0..MaxExtra }

\* patients of key i when total patients are spread evenly over the keys
KeySize(total, i) == total \div 3 + (IF i <= total % 3 THEN 1 ELSE 0)

\* how many patients of a key of n patients are CheXpert patients
ShareChoices(n) == { 0, 1, n \div 2 }

\* sizes of the six strata: CheXpert keys 1..3, then Radiopaedia keys 1..3
StrataOf(total) ==
  { << c1, c2, c3, KeySize(total, 1) - c1, KeySize(total, 2) - c2, KeySize(total, 3) - c3 >> :
      c1 \in ShareChoices(KeySize(total, 1)),
      c2 \in ShareChoices(KeySize(total, 2)),
      c3 \in ShareChoices(KeySize(total, 3)) }

SyntheticStrata == UNION { StrataOf(total) : total \in SyntheticTotals }

\* the patients of stratum g: n distinct identifiers
SyntheticPatients(g, n) == [ i \in 1..n |-> << g, i >> ]

ConvergenceInit ==
  /\ inventory = << >>
  /\ index_state = "ok"
  /\ mode = "api"
  /\ ratios = DefaultRatios
  /\ random_seed \in Seeds
  /\ NotStarted
  /\ strata_sizes \in SyntheticStrata
  /\ cut_next = 1
  /\ cut_lists = [NoCuts EXCEPT !.rng = SeedRng(random_seed)]
  /\ ExtractorIdle
  /\ ResolverIdle
  /\ SplittersIdle
  /\ CalledOnce
  /\ RetryIdle
  /\ BatchesIdle

\* the body of the loop over disease_groups, for the next stratum
CutStratum ==
  /\ cut_next \in 1..Len(strata_sizes)
  /\ cut_lists' =
       IF strata_sizes[cut_next] = 0 THEN cut_lists
       ELSE CutGroup(SyntheticPatients(cut_next, strata_sizes[cut_next]), ratios, cut_lists)
  /\ cut_next' = cut_next + 1
  /\ UNCHANGED << pipeline_vars, strata_sizes, extractor_vars, resolver_vars, splitters,
                  again_vars, retry_vars, batch_vars >>

ConvergenceSpec == ConvergenceInit /\ [][CutStratum]_vars

\* ------------------------------------------------------------------------
\* The allocator's loop on strata of one patient
\* ------------------------------------------------------------------------
\* train and val ratios below 1.0: halves down to some units below zero, and
\* the values next to 0 and to 1
RatiosBelowOne ==
  { 5000 * k : k \in (0 - 2 * MaxBelow - 1)..1 } \cup { -1, 1, RatioDen - 1 }

\* the triples the entry check accepts with such train and val ratios
LoneRatios ==
  { Ratios(t, v, RatioDen - t - v) : t \in RatiosBelowOne, v \in RatiosBelowOne }

\* strata sizes: a lone patient, alone or among larger strata
LoneStrata == { << 1 >>, << 1, 1 >>, << 3, 1, 2 >> }

LoneInit ==
  /\ inventory = << >>
  /\ index_state = "ok"
  /\ mode = "api"
  /\ ratios \in LoneRatios
  /\ random_seed \in Seeds
  /\ NotStarted
  /\ strata_sizes \in LoneStrata
  /\ cut_next = 1
  /\ cut_lists = [NoCuts EXCEPT !.rng = SeedRng(random_seed)]
  /\ ExtractorIdle
  /\ ResolverIdle
  /\ SplittersIdle
  /\ CalledOnce
  /\ RetryIdle
  /\ BatchesIdle

LoneSpec == LoneInit /\ [][CutStratum]_vars

\* ------------------------------------------------------------------------
\* One call of the label extractor on a caption file
\* ------------------------------------------------------------------------
\* words a caption text is written with; "\n" is a line break
Vocabulary ==
  { "Pneumonia", "pleural", "effusions", "no", "acute", "abnormal", "non-enlarged",
    "heart", "\n", "left" }

\* texts of n words
Texts(n) == [ 1..n -> Vocabulary ]

\* caption files: unreadable, or readable with a text of up to MaxWords words
CaptionFiles ==
  { Unreadable(fault) : fault \in CaptionFaults } \cup { Caption(text) : text \in UNION { Texts(n) : n \in 0..MaxWords } }

ExtractorInit ==
  /\ PipelineIdle
  /\ ConvergenceIdle
  /\ ResolverIdle
  /\ SplittersIdle
  /\ CalledOnce
  /\ RetryIdle
  /\ BatchesIdle
  /\ caption_file \in CaptionFiles
  /\ diseases = << >>

\* diseases = self.extract_diseases_from_caption(caption_path)
ExtractDiseases ==
  /\ diseases = << >>
  /\ diseases' = extract_diseases_from_caption(caption_file)
  /\ UNCHANGED << pipeline_vars, convergence_vars, resolver_vars, splitters, again_vars,
                  retry_vars, batch_vars, caption_file >>

ExtractorSpec == ExtractorInit /\ [][ExtractDiseases]_vars

\* ------------------------------------------------------------------------
\* One call of the stratification key resolver
\* ------------------------------------------------------------------------
\* the tags a label set is made of: the taxonomy's and the sentinel
LabelTags ==
  { disease_keywords[d].disease : d \in 1..Len(disease_keywords) } \cup {"unspecified"}

\* the patient whose key is asked for
AskedPatient == << "chexpert_", "patient", "1" >>

\* disease_labels with any set of tags recorded for the patient (the empty
\* one too), or with another patient only
LabelsGiven ==
  { [ pid \in {AskedPatient} |-> tags ] : tags \in SUBSET LabelTags }
    \cup { [ pid \in {<< "radiopaedia_", "9" >>} |-> {"cardiomegaly"} ] }

ResolverInit ==
  /\ PipelineIdle
  /\ ConvergenceIdle
  /\ ExtractorIdle
  /\ SplittersIdle
  /\ CalledOnce
  /\ RetryIdle
  /\ BatchesIdle
  /\ labels_given \in LabelsGiven
  /\ stratification_key = ""

\* key = self.get_stratification_key(patient_id)
ResolveKey ==
  /\ stratification_key = ""
  /\ stratification_key' = get_stratification_key(labels_given, AskedPatient)
  /\ UNCHANGED << pipeline_vars, convergence_vars, extractor_vars, splitters, again_vars,
                  retry_vars, batch_vars, labels_given >>

ResolverSpec == ResolverInit /\ [][ResolveKey]_vars

\* ------------------------------------------------------------------------
\* Several splitter objects in one process
\* ------------------------------------------------------------------------
\* Each splitter has its own fields; np.random is the one generator of the
\* process.  A splitter's inventory is a number of CheXpert patients with one
\* image and the same caption each, so that they form one stratum.
SplitterSizes == { MaxSmall + 1, MaxSmall + 2 }

GroupedBulk(k) == GroupRows(BulkChexpert(k), 1, << >>, 0).patient_data

\* what create_splits of a splitter with k patients stores when np.random is
\* in state r: the three patient lists, and the state it leaves behind
SplitOfBulkFrom(pd, r) ==
  create_splits(pd, extract_patient_disease_labels(pd), DefaultRatios, r)

SplitOfBulk(k, r) == SplitOfBulkFrom(GroupedBulk(k), r)

ListsStored(res) ==
  [train |-> res.splits.train_patients, val |-> res.splits.val_patients,
   test |-> res.splits.test_patients]

SplittersInit ==
  /\ PipelineIdle
  /\ ConvergenceIdle
  /\ ExtractorIdle
  /\ ResolverIdle
  /\ CalledOnce
  /\ RetryIdle
  /\ BatchesIdle
  /\ splitters = NoSplitters

\* everything but the splitter objects and the generator they share
beside_rng ==
  << inputs, run, hash_salt, master_df, patient_data, disease_labels, splits, used_ratios,
     alloc, validation_results, files, metadata_out, mapping_out, pc, raised, exit_code,
     first_run, convergence_vars, extractor_vars, resolver_vars, again_vars, retry_vars, batch_vars >>

\* PatientLevelDataSplitter(path, seed): the fields are set and np.random is
\* seeded
ConstructSplitter(i) ==
  /\ splitters[i].pc = "none"
  /\ \E seed \in Seeds, k \in SplitterSizes :
        /\ splitters' = [splitters EXCEPT ![i] =
                           [NoSplitter EXCEPT !.pc = "constructed", !.random_seed = seed,
                                              !.patients = k]]
        /\ rng' = SeedRng(seed)
  /\ UNCHANGED beside_rng

\* load, group, label (none of which draws a random number) and create_splits
SplitterCreatesSplits(i) ==
  /\ splitters[i].pc = "constructed"
  /\ \E res \in { SplitOfBulk(splitters[i].patients, rng) } :
        /\ splitters' = [splitters EXCEPT ![i].pc = "split",
                                           ![i].assigned = ListsStored(res)]
        /\ rng' = res.rng
  /\ UNCHANGED beside_rng

\* save_splits writes self.random_seed into the metadata
SplitterSaves(i) ==
  /\ splitters[i].pc = "split"
  /\ splitters' = [splitters EXCEPT ![i].pc = "saved",
                                     ![i].metadata_seed = splitters[i].random_seed]
  /\ UNCHANGED << beside_rng, rng >>

SplittersNext ==
  \E i \in SplitterNames :
     \/ ConstructSplitter(i)
     \/ SplitterCreatesSplits(i)
     \/ SplitterSaves(i)

SplittersSpec == SplittersInit /\ [][SplittersNext]_vars

\* ------------------------------------------------------------------------
\* run_full_pipeline called again on the same splitter
\* ------------------------------------------------------------------------
\* inventories on which a run completes: small rows of the two sources with
\* an extraction rule, and both bulk strata
RuledRows == { n \in 1..Len(SmallRows) : SmallRows[n].source \in {"CheXpert", "Radiopaedia"} }

AgainInventories ==
  { SelectRows(keep, Len(SmallRows)) \o BulkChexpert(MaxBulk) \o BulkRadiopaedia(MaxBulk) :
      keep \in { k \in SmallChoices : k \subseteq RuledRows } }

\* the groups of patient_data: each identifier with the filenames of its list
Groups(pd) ==
  [ p \in 1..Len(pd) |->
      [patient_id |-> pd[p].patient_id,
       filenames |-> [ k \in 1..Len(pd[p].images) |-> pd[p].images[k].filename ]] ]

AgainInit ==
  /\ inventory \in AgainInventories
  /\ index_state = "ok"
  /\ mode = "api"
  /\ ratios = DefaultRatios
  /\ random_seed \in Seeds
  /\ NotStarted
  /\ ConvergenceIdle
  /\ ExtractorIdle
  /\ ResolverIdle
  /\ SplittersIdle
  /\ CalledOnce
  /\ RetryIdle
  /\ BatchesIdle

\* run_full_pipeline has returned and the caller calls it again on the same
\* object: every field is as the first call left it
RunAgain ==
  /\ pc = "saved"
  /\ invocation = 1
  /\ invocation' = 2
  /\ first_groups' = Groups(patient_data)
  /\ pc' = "constructed"
  /\ UNCHANGED << inputs, run, hash_salt, rng, master_df, patient_data, disease_labels,
                  splits, used_ratios, alloc, validation_results, files, metadata_out,
                  mapping_out, raised, exit_code, first_run, convergence_vars,
                  extractor_vars, resolver_vars, splitters, retry_vars, batch_vars >>

AgainNext ==
  \/ Construct
  \/ load_master_index
  \/ group_by_patient
  \/ ExtractLabels
  \/ CreateSplits
  \/ ValidateSplits
  \/ SaveSplits
  \/ RunAgain

AgainSpec == AgainInit /\ [][AgainNext]_vars

\* ------------------------------------------------------------------------
\* download_with_retry (src/download_chexpert_batch.py)
\* ------------------------------------------------------------------------
\* the remote object: MaxBytes distinct bytes
Remote == [ i \in 1..MaxBytes |-> i ]

\* the output file before the call: absent, or the first bytes of the object
\* left by an earlier call
FilesBefore == { NoFile } \cup { [exists |-> TRUE, bytes |-> SubSeq(Remote, 1, n)] : n \in 0..MaxBytes }

\* values of max_retries: the smallest ones and the largest
RetryLimits == { 0, 1, 2, MaxRetries }

\* time.sleep(backoff_delay)
Slept(d) == [d EXCEPT !.sleeps = @ + 1, !.last_sleep = d.backoff_delay]

\* lines 50-55: the status is neither 200 nor 206
AfterBadStatus(d) ==
  [Slept(d) EXCEPT !.pc = "loop", !.retry_count = @ + 1,
                   !.backoff_delay = d.backoff_delay * 2]

\* a handler that tries again without counting the attempt
AfterRequestExceptionUncounted(d) ==
  [Slept(d) EXCEPT !.pc = "loop", !.backoff_delay = Min(d.backoff_delay * 2, 300)]

\* lines 93-103: except requests.exceptions.RequestException
AfterRequestException(d) ==
  IF d.retry_count + 1 < d.max_retries
  THEN [Slept(d) EXCEPT !.pc = "loop", !.retry_count = @ + 1,
                        !.backoff_delay = Min(d.backoff_delay * 2, 300)]
  ELSE [d EXCEPT !.pc = "returned", !.retry_count = @ + 1, !.result = "False"]

\* lines 111-115: except Exception
AfterException(d) ==
  [Slept(d) EXCEPT !.pc = "loop", !.retry_count = @ + 1,
                   !.backoff_delay = Min(d.backoff_delay * 2, 300)]

\* lines 105-109: except KeyboardInterrupt
AfterKeyboardInterrupt(d) == [d EXCEPT !.pc = "returned", !.result = "False"]

\* the body of a response: the whole object for 200, the bytes from the
\* requested offset on for 206
BodyOf(status, offset) ==
  IF status = 206 THEN SubSeq(Remote, offset + 1, Len(Remote)) ELSE Remote

\* open(output_path, 'wb') empties the file, 'ab' keeps what it holds
Opened(file, open_mode) ==
  IF open_mode = "wb" THEN [exists |-> TRUE, bytes |-> << >>]
  ELSE [exists |-> TRUE, bytes |-> file.bytes]

RetryInit ==
  /\ PipelineIdle
  /\ ConvergenceIdle
  /\ ExtractorIdle
  /\ ResolverIdle
  /\ SplittersIdle
  /\ CalledOnce
  /\ output_file \in FilesBefore
  /\ download = NoDownload
  /\ BatchesIdle

retry_frame ==
  << pipeline_vars, convergence_vars, extractor_vars, resolver_vars, splitters, again_vars,
     batch_vars >>

\* lines 18-28: the call starts; downloaded is the size of what is on disk
EnterDownload ==
  /\ download.pc = "idle"
  /\ \E max_retries \in RetryLimits :
        download' = [NoDownload EXCEPT !.pc = "loop", !.max_retries = max_retries,
                                       !.downloaded = Len(output_file.bytes),
                                       !.backoff_delay = 5]
  /\ UNCHANGED << retry_frame, output_file >>

\* lines 30-64: one pass of the loop up to the opening of the file.  The
\* server answers 200 with the whole object (it may ignore a Range header),
\* 206 with the requested range, or another status; or the request raises.
SendRequest ==
  /\ download.pc = "loop"
  /\ download.retry_count < download.max_retries
  /\ \E d \in { [download EXCEPT !.requests = @ + 1] } :
        \/ \E status \in {200, 206} :
              /\ status = 206 => (d.downloaded > 0 /\ d.downloaded < Len(Remote))
              /\ download' = [d EXCEPT !.pc = "streaming", !.status = status,
                                        !.body = BodyOf(status, d.downloaded),
                                        !.resumed = d.downloaded > 0]
              /\ output_file' = Opened(output_file, IF d.downloaded > 0 THEN "ab" ELSE "wb")
        \/ /\ download' = AfterBadStatus([d EXCEPT !.status = 416])
           /\ UNCHANGED output_file
        \/ /\ download' = AfterRequestException(d)
           /\ UNCHANGED output_file
        \/ /\ download' = AfterException(d)
           /\ UNCHANGED output_file
        \/ /\ download' = AfterKeyboardInterrupt(d)
           /\ UNCHANGED output_file
  /\ UNCHANGED retry_frame

\* lines 68-71: one chunk of the response is written
WriteChunk ==
  /\ download.pc = "streaming"
  /\ download.body # << >>
  /\ output_file' = [output_file EXCEPT !.bytes = Append(@, Head(download.body))]
  /\ download' = [download EXCEPT !.body = Tail(@), !.downloaded = @ + 1]
  /\ UNCHANGED retry_frame

\* the stream breaks (RequestException), a write fails (Exception), or the
\* user interrupts
StreamBreaks ==
  /\ download.pc = "streaming"
  /\ download.breaks < MaxBreaks
  /\ \E d \in { [download EXCEPT !.breaks = @ + 1] } :
        \/ download' = AfterRequestException(d)
        \/ download' = AfterException(d)
        \/ download' = AfterKeyboardInterrupt(d)
  /\ UNCHANGED << retry_frame, output_file >>

\* lines 88-91: iter_content is exhausted
StreamEnds ==
  /\ download.pc = "streaming"
  /\ download.body = << >>
  /\ download' = [download EXCEPT !.pc = "returned", !.result = "True"]
  /\ UNCHANGED << retry_frame, output_file >>

\* line 117: the loop condition fails
LoopExit ==
  /\ download.pc = "loop"
  /\ download.retry_count >= download.max_retries
  /\ download' = [download EXCEPT !.pc = "returned", !.result = "False"]
  /\ UNCHANGED << retry_frame, output_file >>

RetryNext ==
  \/ EnterDownload
  \/ SendRequest
  \/ WriteChunk
  \/ StreamBreaks
  \/ StreamEnds
  \/ LoopExit

RetrySpec == RetryInit /\ [][RetryNext]_vars

\* every step of the call is taken once it can be: the call runs in a
\* thread of its own and each request ends (timeout=30)
RetryFairSpec == RetrySpec /\ WF_vars(RetryNext)

\* ------------------------------------------------------------------------
\* Parallel batch downloads (src/scripts/download_chexpert_training.py)
\* ------------------------------------------------------------------------
\* what an earlier run of the script left in the progress file
ProgressBefore == [BatchNames -> {"absent", "completed", "failed"}]

BatchInit ==
  /\ PipelineIdle
  /\ ConvergenceIdle
  /\ ExtractorIdle
  /\ ResolverIdle
  /\ SplittersIdle
  /\ CalledOnce
  /\ RetryIdle
  /\ progress_file \in ProgressBefore
  /\ parallel = 0
  /\ threads = [b \in BatchNames |-> NoThread]

batch_frame ==
  << pipeline_vars, convergence_vars, extractor_vars, resolver_vars, splitters, again_vars,
     retry_vars >>

\* download_batch calls that have started and not returned
Running == { b \in BatchNames : threads[b].pc \notin {"none", "queued", "returned"} }

\* lines 61-64: save_progress writes the whole dictionary over the file
save_progress(progress) == progress

\* lines 268-300: main() loads the progress file and submits one
\* download_batch call for every batch not recorded as completed
MainSubmits ==
  /\ parallel = 0
  /\ parallel' \in 1..3
  /\ threads' = [b \in BatchNames |->
                   IF progress_file[b] = "completed" THEN NoThread
                   ELSE [NoThread EXCEPT !.pc = "queued"]]
  /\ UNCHANGED << batch_frame, progress_file >>

\* lines 78-97: a free worker takes the call; it loads the progress file and
\* returns at once when the batch is recorded as completed
ThreadStarts(b) ==
  /\ threads[b].pc = "queued"
  /\ Cardinality(Running) < parallel
  /\ threads' = [threads EXCEPT ![b] =
                   IF progress_file[b] = "completed"
                   THEN [@ EXCEPT !.pc = "returned", !.result = "True"]
                   ELSE [@ EXCEPT !.pc = "downloading"]]
  /\ UNCHANGED << batch_frame, progress_file, parallel >>

\* lines 53-58: progress = load_progress(), kept by the call until it saves
load_progress(b, next_pc) ==
  [threads EXCEPT ![b] = [@ EXCEPT !.pc = next_pc, !.progress = progress_file]]

\* lines 157-158: ten seconds have passed while chunks are written
LoadsForUpdate(b) ==
  /\ threads[b].pc = "downloading"
  /\ threads[b].updates < MaxUpdates
  /\ threads' = load_progress(b, "updating")
  /\ UNCHANGED << batch_frame, progress_file, parallel >>

\* lines 159-165: the entry of the batch is set and the dictionary saved
SavesUpdate(b) ==
  /\ threads[b].pc = "updating"
  /\ progress_file' = save_progress([threads[b].progress EXCEPT ![b] = "in_progress"])
  /\ threads' = [threads EXCEPT ![b] = [@ EXCEPT !.pc = "downloading", !.updates = @ + 1,
                                                  !.progress = << >>]]
  /\ UNCHANGED << batch_frame, parallel >>

\* lines 167-177: the body has been read to its end
LoadsForCompletion(b) ==
  /\ threads[b].pc = "downloading"
  /\ threads' = load_progress(b, "completing")
  /\ UNCHANGED << batch_frame, progress_file, parallel >>

\* lines 178-187: the batch is marked completed and the call returns True
SavesCompleted(b) ==
  /\ threads[b].pc = "completing"
  /\ progress_file' = save_progress([threads[b].progress EXCEPT ![b] = "completed"])
  /\ threads' = [threads EXCEPT ![b] = [@ EXCEPT !.pc = "returned", !.result = "True",
                                                  !.progress = << >>]]
  /\ UNCHANGED << batch_frame, parallel >>

\* lines 189-201: the last attempt ended with a network error
LoadsForFailure(b) ==
  /\ threads[b].pc = "downloading"
  /\ threads' = load_progress(b, "failing")
  /\ UNCHANGED << batch_frame, progress_file, parallel >>

\* lines 202-209: the failure is recorded and the call returns False
SavesFailed(b) ==
  /\ threads[b].pc = "failing"
  /\ progress_file' = save_progress([threads[b].progress EXCEPT ![b] = "failed"])
  /\ threads' = [threads EXCEPT ![b] = [@ EXCEPT !.pc = "returned", !.result = "False",
                                                  !.progress = << >>]]
  /\ UNCHANGED << batch_frame, parallel >>

\* lines 225-231: the last attempt ended with another error; the loop ends
\* and the call returns False without writing the progress file
GivesUp(b) ==
  /\ threads[b].pc = "downloading"
  /\ threads' = [threads EXCEPT ![b] = [@ EXCEPT !.pc = "returned", !.result = "False"]]
  /\ UNCHANGED << batch_frame, progress_file, parallel >>

BatchNext ==
  \/ MainSubmits
  \/ \E b \in BatchNames :
        \/ ThreadStarts(b)
        \/ LoadsForUpdate(b)
        \/ SavesUpdate(b)
        \/ LoadsForCompletion(b)
        \/ SavesCompleted(b)
        \/ LoadsForFailure(b)
        \/ SavesFailed(b)
        \/ GivesUp(b)

BatchSpec == BatchInit /\ [][BatchNext]_vars

\* ------------------------------------------------------------------------
\* Properties
\* ------------------------------------------------------------------------
SplitNames == {"train", "val", "test"}

TableOf(name) ==
  IF name = "train" THEN splits.train ELSE IF name = "val" THEN splits.val ELSE splits.test

ListOf(name) ==
  IF name = "train" THEN splits.train_patients
  ELSE IF name = "val" THEN splits.val_patients
  ELSE splits.test_patients

PairwiseDisjoint(a, b, c) ==
  /\ Range(a) \cap Range(b) = {}
  /\ Range(a) \cap Range(c) = {}
  /\ Range(b) \cap Range(c) = {}

\* the sum of the ratios differs from 1.0 by 0.001 or more
SumOff(r) == Abs(r.train + r.val + r.test - RatioDen) * 1000 >= RatioDen

AllArtifacts == Range(Artifacts)

\* C1 (Disjointness): for every accepted ratio triple, ratios outside [0,1]
\* included, the train, val and test lists each stratified_split_patients
\* call returned, and the concatenated lists create_splits stored, are
\* pairwise disjoint.
C1_Disjoint ==
  /\ PairwiseDisjoint(alloc.chexpert.train, alloc.chexpert.val, alloc.chexpert.test)
  /\ PairwiseDisjoint(alloc.radiopaedia.train, alloc.radiopaedia.val, alloc.radiopaedia.test)
  /\ PairwiseDisjoint(splits.train_patients, splits.val_patients, splits.test_patients)

\* C2 (Completeness): after create_splits the three patient lists together
\* hold exactly the keys of patient_data: every patient of the inventory,
\* fallback identifiers included, and no other identifier.
C2_Complete ==
  splits.set =>
    Range(splits.train_patients) \cup Range(splits.val_patients)
      \cup Range(splits.test_patients) = Keys(patient_data)

C2_Witness ==
  /\ splits.set
  /\ \E pid \in Keys(patient_data) : pid[2] = "unknown_"
  /\ \E pid \in Keys(patient_data) : pid[1] = "radiopaedia_"
  /\ splits.train_patients # << >>
  /\ splits.val_patients # << >>
  /\ splits.test_patients # << >>

\* number of rows of the three tables that carry the filename
TableRows(filename) ==
  Cardinality({ << name, k >> \in
                  SplitNames \X (1..(Len(splits.train) + Len(splits.val) + Len(splits.test))) :
                  k <= Len(TableOf(name)) /\ TableOf(name)[k].filename = filename })

\* C3 (No image-level leakage): after create_splits every inventory row is in
\* exactly one of the three tables, its split field names that table, and
\* that table is the one whose patient list holds the row's patient_id.
C3_NoImageLeakage ==
  splits.set =>
    /\ \A i \in 1..Len(master_df) : TableRows(master_df[i].filename) = 1
    /\ \A name \in SplitNames : \A k \in 1..Len(TableOf(name)) :
         /\ TableOf(name)[k].split = name
         /\ TableOf(name)[k].patient_id \in Range(ListOf(name))
         /\ \A other \in SplitNames \ {name} :
              TableOf(name)[k].patient_id \notin Range(ListOf(other))

\* C4 (Determinism): two runs of the pipeline over the same inventory with the
\* same seed that both complete write the same patient_mapping, also when the
\* inventory holds filenames that take the fallback identifier.
C4_Determinism ==
  (run = 2 /\ pc = "exited" /\ exit_code = 0 /\ first_run.exit_code = 0)
    => mapping_out = first_run.mapping

\* C5 (No partial output): a run that ended in an error has left none of the
\* five artifacts, and a run that ended without error has left all five.
C5_NoPartialOutput ==
  pc = "exited" => IF exit_code = 0 THEN files = AllArtifacts ELSE files = {}

ScenarioInventory == SelectRows(ScenarioRows, Len(SmallRows))

TimesListed(pid) ==
  Cardinality({ name \in SplitNames : pid \in Range(ListOf(name)) })

\* C6 (Four-patient scenario): split with ratios 0.5/0.25/0.25, every patient
\* of the scenario lands in exactly one split, radiopaedia_5 has key
\* unspecified, and validate_splits returns a report whose
\* all_patients_assigned and no_patient_overlap entries are true.
C6_Scenario ==
  ( /\ inventory = ScenarioInventory
    /\ mode = "api"
    /\ ratios = Ratios(5000, 2500, 2500)
    /\ splits.set
    /\ pc # "split" )
  => /\ \A pid \in Keys(patient_data) : TimesListed(pid) = 1
     /\ get_stratification_key(disease_labels, << "radiopaedia_", "5" >>) = "unspecified"
     /\ validation_results.returned
     /\ validation_results.all_patients_assigned
     /\ validation_results.no_patient_overlap

NoneStamped(pd) ==
  \A i \in 1..Len(pd) : \A k \in 1..Len(pd[i].images) : pd[i].images[k].split = "none"

C8_CliRatios ==
  mode = "cli" =>
    /\ used_ratios # NoRatios => used_ratios = ratios
    /\ (pc = "exited" /\ SumOff(ratios)) => (exit_code # 0 /\ files = {})

\* C9 (CLI exit status): the command exits zero only when the validator's
\* overall verdict is positive; when the split completes with a negative
\* verdict all artifacts are written and the exit status is non-zero.
C9_ExitStatus ==
  (mode = "cli" /\ pc = "exited") =>
    /\ exit_code = 0 => (validation_results.returned /\ validation_results.overall_valid)
    /\ (raised = "none" /\ validation_results.returned
          /\ ~validation_results.overall_valid)
       => (files = AllArtifacts /\ exit_code # 0)

HasUnruledSource(rows) ==
  \E i \in 1..Len(rows) : rows[i].source \notin {"CheXpert", "Radiopaedia"}

\* C10 (Unknown source is fatal): when a row of the loaded inventory has a
\* source tag other than CheXpert or Radiopaedia, group_by_patient raises, the
\* run stops before allocation and no artifact is written.
C10_UnknownSourceFatal ==
  (HasUnruledSource(master_df) /\ pc \notin {"constructed", "loaded"}) =>
    /\ raised = "ValueError"
    /\ pc \in {"raised", "exited"}
    /\ disease_labels = EmptyLabels
    /\ used_ratios = NoRatios
    /\ splits = NoSplits
    /\ files = {}

C10_Witness ==
  /\ \E i \in 1..Len(master_df) : master_df[i].source = "NIH"
  /\ patient_data # << >>
  /\ raised = "ValueError"
  /\ exit_code = 1

C10_WitnessUnknown ==
  /\ \E i \in 1..Len(master_df) : master_df[i].source = "Unknown"
  /\ raised = "ValueError"
  /\ exit_code = 1

\* the stratification key of every grouped patient
KeyOfPatient ==
  [ pid \in Keys(patient_data) |-> get_stratification_key(disease_labels, pid) ]

\* a stratum is named by the prefix of its allocator call and its key; the
\* strata are the groups that have a patient
StrataNames(keys) == { << pid[1], keys[pid] >> : pid \in DOMAIN keys }

InStratum(keys, q, pid) == StartsWith(pid, q[1]) /\ keys[pid] = q[2]

\* the patients of one allocator call that share a stratification key
StratumOf(keys, q) == { pid \in DOMAIN keys : InStratum(keys, q, pid) }

\* entries of a list that belong to the stratum
CountIn(keys, q, list) ==
  Cardinality({ i \in 1..Len(list) : InStratum(keys, q, list[i]) })

\* number of entries of the stratum in the train/val/test list of its call
InSplit(keys, q, name) ==
  CountIn(keys, q, alloc.chexpert[name]) + CountIn(keys, q, alloc.radiopaedia[name])

\* every ratio in [0,1] and the three summing to 1.0
UnitRatios(r) ==
  /\ r.train \in 0..RatioDen /\ r.val \in 0..RatioDen /\ r.test \in 0..RatioDen
  /\ r.train + r.val + r.test = RatioDen

\* floor(n * r) for r = num/RatioDen >= 0
Floor(n, num) == (n * num) \div RatioDen

\* the stratum has the given numbers of entries in train, val and test
CutInto(keys, q, n_train, n_val, n_test) ==
  /\ InSplit(keys, q, "train") = n_train
  /\ InSplit(keys, q, "val") = n_val
  /\ InSplit(keys, q, "test") = n_test

CutSizesOf(keys, q, n, r) ==
  CutInto(keys, q, Floor(n, r.train), Floor(n, r.val),
          n - Floor(n, r.train) - Floor(n, r.val))

CutSizes(keys, r) ==
  \A q \in StrataNames(keys) : CutSizesOf(keys, q, Cardinality(StratumOf(keys, q)), r)

SlackToTest(keys, q, n, r) ==
  /\ n >= MaxBulk
  /\ InSplit(keys, q, "train") > 0
  /\ InSplit(keys, q, "val") > 0
  /\ InSplit(keys, q, "test") > Floor(n, r.test)

StrataOfTwo(keys) == { q \in StrataNames(keys) : Cardinality(StratumOf(keys, q)) = 2 }

\* C12 (Stratum of two): a stratum of exactly 2 patients split with ratios
\* 0.8/0.1/0.1 has both of its patients in train, none in val or test.
C12_BothToTrain ==
  (splits.set /\ used_ratios = DefaultRatios) =>
    \A keys \in { KeyOfPatient } : \A q \in StrataOfTwo(keys) : CutInto(keys, q, 2, 0, 0)

\* C12 as the code has it: a stratum of exactly 2 patients split with ratios
\* 0.8/0.1/0.1 has one patient in train (int(1.6) = 1), none in val and the
\* other one in test.
C12_OneTrainOneTest ==
  (splits.set /\ used_ratios = DefaultRatios) =>
    \A keys \in { KeyOfPatient } : \A q \in StrataOfTwo(keys) : CutInto(keys, q, 1, 0, 1)

C12_Witness ==
  /\ splits.set
  /\ used_ratios = DefaultRatios
  /\ \E keys \in { KeyOfPatient } :
       \E q \in StrataOfTwo(keys) : InSplit(keys, q, "test") = 1

\* number of synthetic patients, and the strata all cut
SyntheticTotal ==
  Len(cut_lists.train) + Len(cut_lists.val) + Len(cut_lists.test)

AllCut == strata_sizes # << >> /\ cut_next > Len(strata_sizes)

\* |count/total - target| < 0.05 for a target given in twentieths
WithinTolerance(count, total, twentieths) == Abs(20 * count - twentieths * total) < total

\* C13 (Ratio convergence): for at least 1000 patients spread uniformly over
\* 3 stratification keys and ratios 0.8/0.1/0.1, the fractions of patients in
\* train, val and test are within 0.05 of 0.8, 0.1 and 0.1.
C13_RatioConvergence ==
  AllCut =>
    /\ WithinTolerance(Len(cut_lists.train), SyntheticTotal, 16)
    /\ WithinTolerance(Len(cut_lists.val), SyntheticTotal, 2)
    /\ WithinTolerance(Len(cut_lists.test), SyntheticTotal, 2)

\* all strata cut, nobody lost, and the rounding slack of six strata in test
C13_Witness ==
  /\ AllCut
  /\ SyntheticTotal >= 1000
  /\ SyntheticTotal = strata_sizes[1] + strata_sizes[2] + strata_sizes[3]
                        + strata_sizes[4] + strata_sizes[5] + strata_sizes[6]
  /\ \A g \in 1..Len(strata_sizes) : strata_sizes[g] > 0
  /\ 10 * Len(cut_lists.test) > SyntheticTotal + 50

\* number of distinct patients in a list of self.splits
PatientCount(name) == Cardinality(Range(ListOf(name)))

TotalPatients == PatientCount("train") + PatientCount("val") + PatientCount("test")

\* |count/total - target| < 0.05 for a target given in units of 1/RatioDen
NearTarget(count, total, target) ==
  Abs(count * RatioDen - target * total) * 20 < RatioDen * total

\* C14 (Ratio-fidelity check): after a split built with target ratios
\* (t, v, s), the validator's ratio check is true exactly when the train, val
\* and test patient fractions are each within 0.05 of t, v and s.
C14_RatioFidelity ==
  (validation_results.returned /\ splits.set) =>
    (validation_results.ratio_validation <=>
       /\ NearTarget(PatientCount("train"), TotalPatients, used_ratios.train)
       /\ NearTarget(PatientCount("val"), TotalPatients, used_ratios.val)
       /\ NearTarget(PatientCount("test"), TotalPatients, used_ratios.test))

\* the source tags of a table or of the loaded inventory
SourcesIn(rows) == { rows[i].source : i \in 1..Len(rows) }

\* the report's entry <split>_has_both_sources
SourceFlag(report, name) ==
  IF name = "train" THEN report.train_has_both_sources
  ELSE IF name = "val" THEN report.val_has_both_sources
  ELSE report.test_has_both_sources

\* validate_splits has been called on the stored split
ValidatorCalled == splits.set /\ pc # "split"

\* C15 (Source-coverage check): validate_splits returns a report for every
\* completed split, a split without any patient included, and the report's
\* entry for a split is true exactly when the split holds every source that
\* is present in the inventory (so it can be true for a one-source inventory).
C15_SourceCoverage ==
  ValidatorCalled =>
    /\ validation_results.returned
    /\ \A name \in SplitNames :
         SourceFlag(validation_results, name)
           <=> SourcesIn(TableOf(name)) = SourcesIn(master_df)

\* entries of the three patient lists, repetitions counted
ListedEntries ==
  Len(splits.train_patients) + Len(splits.val_patients) + Len(splits.test_patients)

ListedPatients ==
  Range(splits.train_patients) \cup Range(splits.val_patients)
    \cup Range(splits.test_patients)

\* C16 (Completeness check): the report's all_patients_assigned is true
\* exactly when the three patient lists together hold every patient of the
\* inventory, no other identifier, and no patient more than once, neither
\* across lists nor twice within one list.
C16_CompletenessCheck ==
  (validation_results.returned /\ splits.set) =>
    (validation_results.all_patients_assigned <=>
       /\ ListedPatients = Keys(patient_data)
       /\ ListedEntries = Cardinality(ListedPatients))

\* what validate_splits reads
validated == << splits, patient_data, disease_labels, master_df >>

GroupedPositions ==
  UNION { { << p, k >> : k \in 1..Len(patient_data[p].images) } : p \in 1..Len(patient_data) }

\* the positions whose record carries the filename
PositionsAmong(positions, filename) ==
  { q \in positions : patient_data[q[1]].images[q[2]].filename = filename }

PositionsOf(filename) == PositionsAmong(GroupedPositions, filename)

\* group_by_patient has returned and nothing has touched patient_data since
Grouped == pc \in {"grouped", "labelled"}

\* C18 (Grouping partitions the inventory): after group_by_patient on a
\* freshly constructed splitter every inventory row is in the group of
\* exactly one patient identifier, exactly once, as the record of that row
\* with the group's key as patient_id, no identifier is listed twice, and the
\* number of grouped records equals the number of inventory rows.
C18_GroupingPartitions ==
  Grouped =>
    /\ \A positions \in { GroupedPositions } :
         /\ \A i \in 1..Len(master_df) :
              \A at \in { PositionsAmong(positions, master_df[i].filename) } :
                 /\ Cardinality(at) = 1
                 /\ \A q \in at :
                      patient_data[q[1]].images[q[2]]
                        = ImageRecord(master_df[i], patient_data[q[1]].patient_id)
         /\ Cardinality(positions) = Len(master_df)
    /\ Cardinality(Keys(patient_data)) = Len(patient_data)

\* a patient with two images next to other patients
C18_Witness ==
  /\ Grouped
  /\ Len(patient_data) >= MaxBulk
  /\ \E p \in 1..Len(patient_data) : Len(patient_data[p].images) = 2

\* an identifier made from the hash of the filename
IsFallback(pid) == Len(pid) >= 2 /\ pid[2] = "unknown_"

\* C19 (Fallback identifiers are stable): a filename that matches no
\* extraction rule of its source gets the same identifier in every run of
\* the program: the fallback identifiers of a second process over the same
\* inventory are those of the first.
C19_FallbackStable ==
  (run = 2 /\ Grouped) =>
    \A pid \in Keys(patient_data) :
       IsFallback(pid) => pid \in Range(first_run.patient_ids)

\* the lower-cased text of the caption file
LoweredText == [ i \in 1..Len(caption_file.text) |-> Lower(caption_file.text[i]) ]

\* the taxonomy tags with a keyword that occurs in the text
MatchingTags(text) ==
  { disease_keywords[d].disease : d \in
      { e \in 1..Len(disease_keywords) :
          \E k \in 1..Len(disease_keywords[e].keywords) :
             KeywordIn(disease_keywords[e].keywords[k], text) } }

\* C20 (Label extraction result): for a readable caption the extractor
\* returns exactly the taxonomy tags that have a keyword occurring as a
\* substring of the lower-cased text, each at most once; the result is never
\* empty, and it is the single tag unspecified exactly when no tag matches.
C20_LabelExtraction ==
  (diseases # << >> /\ caption_file.fault = "none") =>
    /\ Cardinality(Range(diseases)) = Len(diseases)
    /\ MatchingTags(LoweredText) # {} => Range(diseases) = MatchingTags(LoweredText)
    /\ MatchingTags(LoweredText) = {} <=> diseases = << "unspecified" >>

\* a text that matches two tags, one of them by two of its keywords and
\* another inside a longer word
C20_Witness ==
  /\ caption_file = Caption(<< "pleural", "effusions", "abnormal" >>)
  /\ diseases = << "pleural_effusion", "normal" >>

\* a readable text without any keyword
C20_WitnessUnspecified ==
  /\ caption_file = Caption(<< "no", "\n", "acute" >>)
  /\ diseases = << "unspecified" >>

\* extract_patient_disease_labels has just returned
LabelsExtracted == pc = "labelled"

\* the images of a patient whose caption cannot be read, and the others
UnreadableImages(images) == { k \in 1..Len(images) : images[k].caption.fault # "none" }

ReadableImages(images) == { k \in 1..Len(images) : images[k].caption.fault = "none" }

\* the captions the inventories are written with, and the tags of each
CaptionsUsed == { CapPneumonia, CapNormal, CapCardiomegaly, NoCaption, GoneCaption }

TagsOfCaptions == { << c, Range(extract_diseases_from_caption(c)) >> : c \in CaptionsUsed }

\* the tags of the captions of a patient that can be read, looked up in a
\* table of captions and their tags
TagsRead(table, images) ==
  UNION { t[2] : t \in { u \in table :
                          \E k \in ReadableImages(images) : images[k].caption = u[1] } }

\* the patient has its labels: those read, and the sentinel for a caption
\* that could not be read
LabelledDespite(table, pid, images) ==
  /\ pid \in DOMAIN disease_labels
  /\ disease_labels[pid] # {}
  /\ disease_labels[pid] =
       TagsRead(table, images) \cup (IF UnreadableImages(images) # {} THEN {"unspecified"} ELSE {})
  /\ get_stratification_key(disease_labels, pid) \in disease_labels[pid]

RankOrder ==
  << "pneumonia", "pneumothorax", "pleural_effusion", "cardiomegaly", "edema",
     "atelectasis", "nodule", "fracture", "normal", "unspecified" >>

Rank(tag) == CHOOSE i \in 1..Len(RankOrder) : RankOrder[i] = tag

\* the member of a non-empty set of tags with the highest rank
HighestRanked(tags) == CHOOSE t \in tags : \A u \in tags : Rank(t) <= Rank(u)

\* C22 (Stratification key): for a patient with a non-empty label set the
\* resolver returns the member of the set that ranks highest in the order
\* pneumonia, pneumothorax, pleural_effusion, cardiomegaly, edema,
\* atelectasis, nodule, fracture, normal, unspecified; for an empty label set
\* or a patient without recorded labels it returns unspecified.
C22_StratificationKey ==
  stratification_key # "" =>
    IF AskedPatient \in DOMAIN labels_given /\ labels_given[AskedPatient] # {}
    THEN stratification_key = HighestRanked(labels_given[AskedPatient])
    ELSE stratification_key = "unspecified"

\* a set whose highest tag is neither the first the taxonomy lists nor the
\* only one
C22_Witness ==
  /\ AskedPatient \in DOMAIN labels_given
  /\ labels_given[AskedPatient] = {"normal", "pleural_effusion", "pneumothorax", "unspecified"}
  /\ stratification_key = "pneumothorax"

\* the defensive cases: an empty set, and no record at all
C22_WitnessEmpty ==
  /\ stratification_key = "unspecified"
  /\ AskedPatient \in DOMAIN labels_given
  /\ labels_given[AskedPatient] = {}

\* the columns of the inventory, and the two the splitter adds
InputColumns == {"filename", "source", "caption", "has_caption"}

AddedColumns == {"patient_id", "split"}

\* two records agree on every input column
SameInput(row, rec) ==
  /\ row.filename = rec.filename
  /\ \A c \in InputColumns : row[c] = rec[c]

\* the record has the input columns with the values of a row of the table df,
\* and the two added columns besides
CarriesRowOf(df, rec) ==
  /\ DOMAIN rec = InputColumns \cup AddedColumns
  /\ \E i \in 1..Len(df) : SameInput(df[i], rec)

AllCarried(df, table) == \A k \in 1..Len(table) : CarriesRowOf(df, table[k])

\* C23 (Original fields are never mutated): from loading on, the loaded
\* inventory table stays as the index file has it, and every row of the
\* three output tables has the input columns with the values of an inventory
\* row, plus patient_id and split and no other column.
C23_OriginalFieldsKept ==
  /\ pc \notin {"start", "constructed"} => master_df = inventory
  /\ \A i \in 1..Len(master_df) : DOMAIN master_df[i] = InputColumns
  /\ splits.set =>
       \A df \in { master_df } :
          AllCarried(df, splits.train) /\ AllCarried(df, splits.val) /\ AllCarried(df, splits.test)

\* the tables are written, with a row whose caption file is gone though the
\* index says it has one, a row without caption, and two rows of one patient
C23_Witness ==
  /\ pc = "saved"
  /\ \E name \in SplitNames : \E k \in 1..Len(TableOf(name)) :
       TableOf(name)[k].caption = GoneCaption /\ TableOf(name)[k].has_caption
  /\ \E name \in SplitNames : \E k \in 1..Len(TableOf(name)) :
       TableOf(name)[k].caption = CapNormal /\ TableOf(name)[k].split = name
  /\ Len(splits.train) + Len(splits.val) + Len(splits.test) = Len(master_df)

\* the synthetic strata of one patient that have been cut
LoneCut == { g \in 1..Len(strata_sizes) : g < cut_next /\ strata_sizes[g] = 1 }

\* C24 (Singleton stratum): whatever the seed and whatever train and val
\* ratios below 1.0, the patient of a stratum of exactly one patient is put
\* in test, once, and neither in train nor in val.
C24_SingletonToTest ==
  (ratios.train < RatioDen /\ ratios.val < RatioDen) =>
    \A g \in LoneCut :
       /\ << g, 1 >> \notin Range(cut_lists.train)
       /\ << g, 1 >> \notin Range(cut_lists.val)
       /\ Cardinality({ i \in 1..Len(cut_lists.test) : cut_lists.test[i] = << g, 1 >> }) = 1

\* a lone patient cut with int(train) = -1 and int(val) = -2, after a larger
\* stratum
C24_Witness ==
  /\ ratios.train = -RatioDen
  /\ ratios.val = -2 * RatioDen - 5000
  /\ strata_sizes = << 3, 1, 2 >>
  /\ cut_next = 3
  /\ << 2, 1 >> \in Range(cut_lists.test)

\* the lists a splitter with k patients stores when no other splitter exists
\* and np.random was seeded with the given seed
AloneLists(k, seed) == ListsStored(SplitOfBulk(k, SeedRng(seed)))

\* C25 (Seed isolation between splitter instances): whatever other splitters
\* are constructed and run in the same process, the split a splitter produces
\* is the one its own inventory and its own random_seed give, and the seed
\* written to its metadata is the seed that determined its shuffle.
C25_SeedIsolation ==
  \A i \in SplitterNames :
     /\ splitters[i].pc \in {"split", "saved"}
          => splitters[i].assigned = AloneLists(splitters[i].patients, splitters[i].random_seed)
     /\ splitters[i].pc = "saved"
          => splitters[i].assigned = AloneLists(splitters[i].patients, splitters[i].metadata_seed)

\* the second call of run_full_pipeline has grouped; it has stored its split
GroupedAgain == invocation = 2 /\ pc \notin {"constructed", "loaded"}

SplitAgain == invocation = 2 /\ pc \in {"split", "validated", "saved"}

\* C26 (Re-running on the same instance is harmless): after a second
\* run_full_pipeline on the same splitter the patient groups are those of
\* the first call, every inventory row is grouped exactly once, and the three
\* output tables together hold exactly one row per inventory row.
C26_RerunHarmless ==
  /\ GroupedAgain =>
       /\ Groups(patient_data) = first_groups
       /\ \A i \in 1..Len(master_df) : Cardinality(PositionsOf(master_df[i].filename)) = 1
  /\ SplitAgain =>
       /\ Len(splits.train) + Len(splits.val) + Len(splits.test) = Len(master_df)
       /\ \A i \in 1..Len(master_df) : TableRows(master_df[i].filename) = 1

\* C28 (Resume preserves content): when download_with_retry returns True,
\* after any failed attempts and whether a resumed request was answered with
\* 206 or with 200, the output file equals the remote object, no byte
\* duplicated or missing.
C28_ResumePreservesContent ==
  (download.pc = "returned" /\ download.result = "True") => output_file.bytes = Remote

\* C29 (Retry backoff is capped): the delay slept before a retry is 5
\* seconds the first time, doubles after each failed attempt and never
\* exceeds 300 seconds, whatever the kind of failure.
C29_BackoffCapped ==
  download.sleeps > 0 =>
    /\ download.last_sleep <= 300
    /\ download.last_sleep = Min(5 * 2 ^ (download.sleeps - 1), 300)

\* what holds at every moment of a call of download_with_retry
RetriesBounded ==
  /\ download.retry_count <= download.max_retries
  /\ download.requests <= download.max_retries
  /\ download.pc = "streaming" => download.retry_count < download.max_retries
  /\ (download.pc = "returned" /\ download.retry_count = download.max_retries)
       => download.result = "False"
  /\ (download.pc = "returned" /\ download.result = "True")
       => /\ download.status \in {200, 206}
          /\ download.body = << >>
          /\ download.requests >= 1

\* C30 (Bounded retries): download_with_retry always terminates; it makes at
\* most max_retries attempts, a call whose max_retries attempts have all
\* failed returns False, and it returns True only after an attempt that
\* received status 200 or 206 and streamed the body to its end.
C30_BoundedRetries ==
  /\ []RetriesBounded
  /\ [](download.pc = "loop" /\ download.retry_count = download.max_retries
          => <>(download.pc = "returned" /\ download.result = "False"))
  /\ <>(download.pc = "returned")

\* all attempts of a call with the largest max_retries have failed, one of
\* them after its stream broke, and the call has returned False
C30_Witness ==
  /\ download.pc = "returned"
  /\ download.result = "False"
  /\ download.max_retries = MaxRetries
  /\ download.retry_count = MaxRetries
  /\ download.requests = MaxRetries
  /\ download.breaks > 0

\* a call returns True after earlier attempts of it failed
C30_WitnessTrue ==
  /\ download.pc = "returned"
  /\ download.result = "True"
  /\ download.retry_count > 0

\* every submitted download_batch call has returned
AllReturned ==
  /\ parallel > 0
  /\ \A b \in BatchNames : threads[b].pc \in {"none", "returned"}

\* once all threads have returned, every batch whose call returned True is
\* recorded as completed
ReturnedTrueRecorded ==
  AllReturned =>
    \A b \in BatchNames : threads[b].result = "True" => progress_file[b] = "completed"

\* C27 (Progress records are not lost under parallel downloads): in every
\* interleaving of the download_batch threads, an entry of the progress file
\* with status completed stays completed, and once all threads have
\* returned every batch whose call returned True is recorded as completed.
C27_ProgressNotLost ==
  /\ [][\A b \in BatchNames :
          progress_file[b] = "completed" => progress_file'[b] = "completed"]_vars
  /\ []ReturnedTrueRecorded

====
